---- MODULE Spec2Model ----
(***************************************************************************)
(* Model of src/src/sync.js: the Slack -> Supabase archiver.               *)
(*                                                                         *)
(* One process (main) runs at a time.  A run selects FULL or INCREMENTAL   *)
(* mode from the sync_log row of the current UTC day, lists the channels,  *)
(* and for each channel pages through conversations.history (and           *)
(* conversations.replies for threads), upserting every authored message.   *)
(*                                                                         *)
(* Time is kept in whole seconds (`now` is Math.floor(Date.now() / 1000)); *)
(* a Slack message timestamp `ts` is kept in sub-second units (TsUnit per  *)
(* second), so the floor taken by getOldestTimestamp / getLastSyncTime is  *)
(* a real truncation.  Days, the recheck period and the full-sync horizon  *)
(* are scaled down (a day is DaySeconds seconds).                          *)
(***************************************************************************)
EXTENDS Integers, Sequences, FiniteSets, TLC

VARIABLES
    now,          \* Math.floor(Date.now() / 1000)
    platform,     \* every message Slack holds or will hold (visible once ts <= now)
    slackChannels,\* conversations.list: the channels the bot sees, in the order returned
    slackUsers,   \* Slack side: user id -> the profile's `updated` counter
    failures,     \* failed requests / writes so far
    store,        \* table messages: set of rows, one per id
    users,        \* table users: user id -> [exists, updated]
    sync_log,     \* table sync_log: set of rows, one per sync_date
    usersCache,   \* const usersCache = new Map(): id -> [has, updated, dbSynced]
    pc,           \* where the process is
    run,          \* locals of main()
    chan,         \* locals of syncChannel()
    win,          \* locals of syncNewMessages() / recheckRecentMessages()
    thr,          \* locals of syncThreadReplies()
    hist          \* observations of the run (requests made, last call's outcome)

vars == << now, platform, slackChannels, slackUsers, failures, store, users, sync_log,
           usersCache, pc, run, chan, win, thr, hist >>

----------------------------------------------------------------------------
(* Configuration and scales *)

\* RECHECK_DAYS, FULL_SYNC_DAYS: parseInt(process.env...), any positive value
RECHECK_DAYS == 1
FULL_SYNC_DAYS == 2
\* 24 * 60 * 60, scaled
DaySeconds == 2
\* sub-second units of a Slack ts per second (parseFloat(ts) * 1000 / 1000), scaled
TsUnit == 2
\* null / undefined for a timestamp or a counter
Null == 0

\* Bounds of the model
MaxTime == 6
MaxRuns == 3
MaxFailures == 1
MaxUpdated == 2
MaxCalls == 3
MaxProcesses == 2


Max(a, b) == IF a > b THEN a ELSE b

NoUser == "none"
UserIds == {"U1", "U2"}

\* new Date().toISOString().split('T')[0]: the UTC calendar day of an instant
DateOf(t) == t \div DaySeconds

\* Math.floor(new Date(row.timestamp).getTime() / 1000)
SecondsOf(ts) == ts \div TsUnit

----------------------------------------------------------------------------
(* Slack side *)

\* A platform message: [channel, ts, user, text, edited, thread_ts].
\* thread_ts = Null for a top-level message, the parent's ts for a reply.
Visible(m) == SecondsOf(m.ts) <= now

RepliesOf(channelId, ts) ==
    { r \in platform : r.channel = channelId /\ r.thread_ts = ts /\ Visible(r) }

\* The message as the Web API returns it (reply_count only on a thread parent).
ApiMessage(m) ==
    [ ts |-> m.ts, user |-> m.user, text |-> m.text, edited |-> m.edited,
      thread_ts |-> m.thread_ts,
      reply_count |-> IF m.thread_ts = Null
                      THEN Cardinality(RepliesOf(m.channel, m.ts)) ELSE 0 ]

\* users.info: the profile of a user as Slack holds it now
Profile(userId) == [ id |-> userId, updated |-> slackUsers[userId] ]
NoProfile == [ id |-> NoUser, updated |-> Null ]

----------------------------------------------------------------------------
(* usersCache, getUser, syncUser, storeMessage *)

NotCached == [ has |-> FALSE, updated |-> Null, dbSynced |-> FALSE ]
NoRow == [ exists |-> FALSE, updated |-> Null ]

\* getUser(userId): [cache, user, fetched]; fetchOk is the outcome of users.info
getUser(cache, userId, fetchOk) ==
    IF cache[userId].has
    THEN [ cache |-> cache,
           user |-> [ id |-> userId, updated |-> cache[userId].updated ],
           fetched |-> FALSE ]
    ELSE IF fetchOk
    THEN [ cache |-> [ cache EXCEPT ![userId] =
                         [ has |-> TRUE, updated |-> Profile(userId).updated,
                           dbSynced |-> FALSE ] ],
           user |-> Profile(userId),
           fetched |-> TRUE ]
    ELSE [ cache |-> cache, user |-> NoProfile, fetched |-> TRUE ]

\* Variant of the check: the upsert is always issued
needsUpdateAlways(slackUser, dbRow, readOk) == TRUE

\* const needsUpdate = !dbUser || (slackUser.updated > (dbUser.updated || 0));
\* dbUser is null when the row is absent and when the read returned an error
needsUpdate(slackUser, dbRow, readOk) ==
    LET dbUser == IF readOk THEN dbRow ELSE NoRow
    IN  (~dbUser.exists) \/ (slackUser.updated > dbUser.updated)

\* Variant of syncUser: the cache entry is marked dbSynced only when the upsert
\* was issued and succeeded
syncUserMarkingWrites(slackUser, cache, tbl, readOk, upsertOk) ==
    IF slackUser.id = NoUser
    THEN [ cache |-> cache, users |-> tbl, read |-> FALSE, write |-> FALSE ]
    ELSE IF cache[slackUser.id].has /\ cache[slackUser.id].dbSynced
    THEN [ cache |-> cache, users |-> tbl, read |-> FALSE, write |-> FALSE ]
    ELSE
      LET id == slackUser.id
          upd == needsUpdate(slackUser, tbl[id], readOk)
      IN [ cache |-> [ cache EXCEPT ![id] =
                         [ has |-> TRUE,
                           updated |-> IF cache[id].has THEN cache[id].updated
                                       ELSE slackUser.updated,
                           dbSynced |-> upd /\ upsertOk ] ],
           users |-> IF upd /\ upsertOk
                     THEN [ tbl EXCEPT ![id] =
                              [ exists |-> TRUE, updated |-> slackUser.updated ] ]
                     ELSE tbl,
           read |-> TRUE,
           write |-> upd ]

\* syncUser(slackUser): [cache, users, read, write]
\* read: the users row was selected; write: the upsert was issued
syncUser(slackUser, cache, tbl, readOk, upsertOk) ==
    IF slackUser.id = NoUser
    THEN [ cache |-> cache, users |-> tbl, read |-> FALSE, write |-> FALSE ]
    ELSE IF cache[slackUser.id].has /\ cache[slackUser.id].dbSynced
    THEN [ cache |-> cache, users |-> tbl, read |-> FALSE, write |-> FALSE ]
    ELSE
      LET id == slackUser.id
          upd == needsUpdate(slackUser, tbl[id], readOk)
      IN [ cache |-> [ cache EXCEPT ![id] =
                         [ has |-> TRUE,
                           updated |-> IF cache[id].has THEN cache[id].updated
                                       ELSE slackUser.updated,
                           dbSynced |-> TRUE ] ],
           users |-> IF upd /\ upsertOk
                     THEN [ tbl EXCEPT ![id] =
                              [ exists |-> TRUE, updated |-> slackUser.updated ] ]
                     ELSE tbl,
           read |-> TRUE,
           write |-> upd ]

\* id: `${channelId}-${message.ts}`, the composite key (channel id, ts)
MessageId(channelId, ts) == << channelId, ts >>

\* edited_timestamp: message.edited?.ts ? new Date(...).toISOString() : null
EditedTimestamp(message) == message.edited

\* The row storeMessage upserts
MessageRow(message, channelId, channelName, username) ==
    [ id |-> MessageId(channelId, message.ts),
      channel_id |-> channelId,
      channel_name |-> channelName,
      user_id |-> message.user,
      username |-> username,
      text |-> message.text,
      timestamp |-> message.ts,
      thread_ts |-> message.thread_ts,
      edited_timestamp |-> EditedTimestamp(message),
      raw_json |-> message ]

\* Variant of the upsert: a plain insert, the row of the same id stays
UpsertInsertOnly(tbl, row) == tbl \cup { row }

\* .upsert([row], { onConflict: 'id' })
Upsert(tbl, row) == { r \in tbl : r.id # row.id } \cup { row }

\* Outcomes of the four requests storeMessage may make
Outcomes == [ fetchOk : BOOLEAN, readOk : BOOLEAN, userUpsertOk : BOOLEAN,
              upsertOk : BOOLEAN ]

\* storeMessage(message, channelId, channelName) under outcomes o:
\* the new cache, users and messages tables, and what was requested
storeMessage(message, channelId, channelName, o) ==
    LET g == IF message.user # NoUser
             THEN getUser(usersCache, message.user, o.fetchOk)
             ELSE [ cache |-> usersCache, user |-> NoProfile, fetched |-> FALSE ]
        s == IF g.user # NoProfile
             THEN syncUser(g.user, g.cache, users, o.readOk, o.userUpsertOk)
             ELSE [ cache |-> g.cache, users |-> users,
                    read |-> FALSE, write |-> FALSE ]
        username == IF g.user # NoProfile THEN g.user.id ELSE NoUser
        row == MessageRow(message, channelId, channelName, username)
    IN [ cache |-> s.cache,
         users |-> s.users,
         store |-> IF o.upsertOk THEN Upsert(store, row) ELSE store,
         row |-> row,
         user |-> g.user,
         fetched |-> g.fetched,
         read |-> s.read,
         write |-> s.write,
         nfail |-> (IF g.fetched /\ ~o.fetchOk THEN 1 ELSE 0)
                 + (IF s.read /\ ~o.readOk THEN 1 ELSE 0)
                 + (IF s.write /\ ~o.userUpsertOk THEN 1 ELSE 0)
                 + (IF ~o.upsertOk THEN 1 ELSE 0) ]

\* Outcomes that differ only in a request storeMessage does not make are one
Relevant(message, o) ==
    LET r == storeMessage(message, "C1", "C1", o)
    IN  /\ (~r.fetched => o.fetchOk)
        /\ (~r.read => o.readOk)
        /\ (~r.write => o.userUpsertOk)

\* What a storeMessage call leaves in hist.last
LastCall(message, channelId, o) ==
    LET r == storeMessage(message, channelId, channelId, o)
        old == { x \in store : x.id = r.row.id }
    IN [ called |-> TRUE,
         id |-> r.row.id,
         text |-> message.text,
         edited |-> message.edited,
         upsertOk |-> o.upsertOk,
         hadRow |-> old # {},
         oldTexts |-> { x.text : x \in old },
         user |-> message.user,
         incoming |-> r.user.updated,
         dbBefore |-> IF message.user = NoUser THEN NoRow ELSE users[message.user],
         userRead |-> r.read,
         userReadOk |-> o.readOk,
         userWrite |-> r.write /\ o.userUpsertOk ]

NoCall ==
    [ called |-> FALSE, id |-> MessageId("C1", Null), text |-> "", edited |-> Null,
      upsertOk |-> TRUE, hadRow |-> FALSE, oldTexts |-> {}, user |-> NoUser,
      incoming |-> Null, dbBefore |-> NoRow, userRead |-> FALSE,
      userReadOk |-> TRUE, userWrite |-> FALSE ]

----------------------------------------------------------------------------
(* Slack requests *)

RECURSIVE Descending(_)
\* conversations.history returns the newest message first
Descending(S) ==
    IF S = {} THEN << >>
    ELSE LET m == CHOOSE x \in S : \A y \in S : y.ts <= x.ts
         IN  << m >> \o Descending(S \ {m})

RECURSIVE Ascending(_)
\* conversations.replies returns the oldest reply first
Ascending(S) ==
    IF S = {} THEN << >>
    ELSE LET m == CHOOSE x \in S : \A y \in S : x.ts <= y.ts
         IN  << m >> \o Ascending(S \ {m})

ApiPage(seq, k) == [ i \in 1..k |-> ApiMessage(seq[i]) ]

\* conversations.history({ channel, oldest, cursor }): the top-level messages
\* later than `oldest` (exclusive) that the cursor has not passed
HistoryRest(channelId, oldest, cursor) ==
    Descending({ m \in platform :
                   /\ m.channel = channelId
                   /\ m.thread_ts = Null
                   /\ Visible(m)
                   /\ m.ts > oldest * TsUnit
                   /\ (cursor = Null \/ m.ts < cursor) })

\* conversations.replies({ channel, ts, cursor }): the replies of the thread
RepliesRest(channelId, threadTs, cursor) ==
    Ascending({ m \in RepliesOf(channelId, threadTs) : m.ts > cursor })

ThreadParent(channelId, threadTs) ==
    { m \in platform : m.channel = channelId /\ m.ts = threadTs }

----------------------------------------------------------------------------
(* Database reads *)

ChannelRows(channelId) == { r \in store : r.channel_id = channelId }

\* The timestamps stored for a channel (what a window's start was computed from)
StoredTimes(channelId) == { r.timestamp : r \in ChannelRows(channelId) }

\* .order('timestamp', { ascending: true }).limit(1)
OldestRow(rows) == CHOOSE r \in rows : \A x \in rows : r.timestamp <= x.timestamp
\* .order('timestamp', { ascending: false }).limit(1)
LatestRow(rows) == CHOOSE r \in rows : \A x \in rows : r.timestamp >= x.timestamp

\* getOldestTimestamp(channelId): null on error or when nothing is stored
getOldestTimestamp(channelId, readOk) ==
    IF ~readOk \/ ChannelRows(channelId) = {} THEN Null
    ELSE SecondsOf(OldestRow(ChannelRows(channelId)).timestamp)

\* Variant of getLastSyncTime: the order is ascending, the oldest row is taken
getLastSyncTimeAscending(channelId, readOk) ==
    IF ~readOk \/ ChannelRows(channelId) = {}
    THEN now - FULL_SYNC_DAYS * DaySeconds
    ELSE SecondsOf(OldestRow(ChannelRows(channelId)).timestamp)

\* getLastSyncTime(channelId): FULL_SYNC_DAYS ago on error or when nothing is stored
getLastSyncTime(channelId, readOk) ==
    IF ~readOk \/ ChannelRows(channelId) = {}
    THEN now - FULL_SYNC_DAYS * DaySeconds
    ELSE SecondsOf(LatestRow(ChannelRows(channelId)).timestamp)

\* const fullSyncStart = oldestTimestamp || (now - FULL_SYNC_DAYS days)
fullSyncStart(oldestTimestamp) ==
    IF oldestTimestamp # Null THEN oldestTimestamp
    ELSE now - FULL_SYNC_DAYS * DaySeconds

\* Variant of the recheck start: the horizon of a full sync
recheckFromHorizon(daysToRecheck) == now - FULL_SYNC_DAYS * DaySeconds

\* const recheckFrom = now - daysToRecheck days
recheckFrom(daysToRecheck) == now - daysToRecheck * DaySeconds

\* Variant of getTodaySyncStatus: the row is not filtered by sync_date
getTodaySyncStatusAnyDay(readOk) ==
    readOk /\ sync_log # {}

\* getTodaySyncStatus(): hasRunToday = !!data
getTodaySyncStatus(readOk) ==
    readOk /\ \E row \in sync_log : row.sync_date = DateOf(now)

\* recordSyncCompletion(): upsert on sync_date
SyncLogRow(totalMessages, totalReplies, channelsProcessed) ==
    [ sync_date |-> DateOf(now), completed_at |-> now,
      total_messages |-> totalMessages, total_replies |-> totalReplies,
      channels_processed |-> channelsProcessed ]

\* Variant of the sync_log upsert: a plain insert, the row of the day stays
UpsertLogInsertOnly(tbl, row) == tbl \cup { row }

\* .upsert([row], { onConflict: 'sync_date' })
UpsertLog(tbl, row) == { r \in tbl : r.sync_date # row.sync_date } \cup { row }

----------------------------------------------------------------------------
(* The process: main -> syncChannel -> recheckRecentMessages /            *)
(* syncNewMessages -> syncThreadReplies                                    *)

JoinResults == { "ok", "already_in_channel", "method_not_supported_for_channel_type",
                 "channel_not_found", "other" }

NoRun == [ isFullSync |-> TRUE, queue |-> << >>, totalMessages |-> 0,
           totalReplies |-> 0, channelsProcessed |-> 0 ]
NoChan == [ id |-> "", totalNewMessages |-> 0, totalNewReplies |-> 0 ]
NoWin == [ kind |-> "none", oldest |-> Null, cursor |-> Null, hasMore |-> FALSE,
           page |-> << >>, messages |-> 0, replies |-> 0 ]
NoThr == [ ts |-> Null, cursor |-> Null, hasMore |-> FALSE, page |-> << >>,
           count |-> 0 ]

\* let cursor; let hasMore = true; counts at 0
StartWindow(kind, oldest) ==
    [ kind |-> kind, oldest |-> oldest, cursor |-> Null, hasMore |-> TRUE,
      page |-> << >>, messages |-> 0, replies |-> 0 ]
StartThread(threadTs) ==
    [ ts |-> threadTs, cursor |-> Null, hasMore |-> TRUE, page |-> << >>,
      count |-> 0 ]

\* Any request or write may fail, MaxFailures times in all
Budget(n) == failures + n <= MaxFailures /\ failures' = failures + n
Cost(ok) == IF ok THEN 0 ELSE 1

\* syncChannel returns; main adds the counts and takes the next channel
ChannelDone(c, r) ==
    [ pc |-> "channel", win |-> NoWin, thr |-> NoThr, chan |-> NoChan,
      run |-> [ r EXCEPT !.totalMessages = @ + c.totalNewMessages,
                         !.totalReplies = @ + c.totalNewReplies,
                         !.channelsProcessed = @ + 1,
                         !.queue = Tail(@) ] ]

\* Variant of the return to syncChannel: updatedMessages of the recheck is added
\* to the channel's message count as well
WindowDoneCountingRecheck(w, c, r) ==
    IF w.kind = "recheck"
    THEN [ pc |-> "lastsync", win |-> NoWin, thr |-> NoThr,
           chan |-> [ c EXCEPT !.totalNewMessages = @ + w.messages,
                               !.totalNewReplies = @ + w.replies ], run |-> r ]
    ELSE ChannelDone([ c EXCEPT !.totalNewMessages = @ + w.messages,
                                !.totalNewReplies = @ + w.replies ], r)

\* Variant of the return to syncChannel: the end of the recheck loop ends the
\* channel, syncNewMessages is not called
WindowDoneEndingChannel(w, c, r) ==
    ChannelDone([ c EXCEPT !.totalNewMessages =
                             @ + (IF w.kind = "new" THEN w.messages ELSE 0),
                           !.totalNewReplies = @ + w.replies ], r)

\* recheckRecentMessages / syncNewMessages returns to syncChannel
WindowDone(w, c, r) ==
    IF w.kind = "recheck"
    THEN [ pc |-> "lastsync", win |-> NoWin, thr |-> NoThr,
           chan |-> [ c EXCEPT !.totalNewReplies = @ + w.replies ], run |-> r ]
    ELSE ChannelDone([ c EXCEPT !.totalNewMessages = @ + w.messages,
                                !.totalNewReplies = @ + w.replies ], r)

\* The history loop after one message (and its thread) is done
AfterMessage(w, c, r) ==
    IF w.page # << >>
    THEN [ pc |-> "page", win |-> w, thr |-> NoThr, chan |-> c, run |-> r ]
    ELSE IF w.hasMore
    THEN [ pc |-> "history", win |-> w, thr |-> NoThr, chan |-> c, run |-> r ]
    ELSE WindowDone(w, c, r)

\* syncThreadReplies returns repliesCount to the history loop
ThreadDone(t, w, c, r) == AfterMessage([ w EXCEPT !.replies = @ + t.count ], c, r)

\* The replies loop after one message is done
AfterReply(t, w, c, r) ==
    IF t.page # << >>
    THEN [ pc |-> "tpage", win |-> w, thr |-> t, chan |-> c, run |-> r ]
    ELSE IF t.hasMore
    THEN [ pc |-> "replies", win |-> w, thr |-> t, chan |-> c, run |-> r ]
    ELSE ThreadDone(t, w, c, r)

Goto(n) ==
    /\ pc' = n.pc
    /\ win' = n.win
    /\ thr' = n.thr
    /\ chan' = n.chan
    /\ run' = n.run

ZeroCounts == [ u \in UserIds |-> 0 ]

\* What hist.windows keeps of a window: the `oldest` and `latest` parameters of its
\* history requests (the code never passes `latest`), when it was planned, what
\* the channel had stored then and whether the read of the store succeeded
Requested(kind, oldest, channelId, readOk) ==
    [ kind |-> kind, oldest |-> oldest, latest |-> Null, at |-> now,
      stored |-> StoredTimes(channelId), readOk |-> readOk ]

\* main(): getTodaySyncStatus, isFullSync = !hasRunToday (a new process: empty cache)
MainStart ==
    /\ pc = "idle"
    /\ hist.runs < MaxRuns
    /\ \E readOk \in BOOLEAN :
         /\ Budget(Cost(readOk))
         /\ run' = [ NoRun EXCEPT !.isFullSync = ~getTodaySyncStatus(readOk) ]
    /\ usersCache' = [ u \in UserIds |-> NotCached ]
    /\ pc' = "list"
    /\ hist' = [ hist EXCEPT !.runStart = now, !.runs = @ + 1, !.exit = "none",
                             !.windows = << >>, !.skipped = {},
                             !.fetches = ZeroCounts, !.reads = ZeroCounts,
                             !.calls = 0, !.last = NoCall,
                             !.join = "none", !.persisted = {},
                             !.tried = [ messages |-> 0, replies |-> 0 ],
                             !.failedAtStart = failures,
                             !.startDays = @ \cup { DateOf(now) },
                             !.firstOfDay = DateOf(now) \notin hist.startDays,
                             !.completedToday = DateOf(now) \in hist.completedDays ]
    /\ UNCHANGED << now, platform, slackChannels, slackUsers, store, users, sync_log, chan, win, thr >>

\* Variant of the list step: a failed list is taken as an empty one and the run
\* goes on to its completion record
ListChannelsIgnoringFailure ==
    /\ pc = "list"
    /\ \E ok \in BOOLEAN :
         /\ Budget(Cost(ok))
         /\ run' = [ run EXCEPT !.queue = IF ok THEN slackChannels ELSE << >> ]
         /\ pc' = "channel"
         /\ hist' = hist
    /\ UNCHANGED << now, platform, slackChannels, slackUsers, store, users, sync_log, usersCache,
                    chan, win, thr >>

\* slack.conversations.list: a failure is caught by main's catch, process.exit(1)
ListChannels ==
    /\ pc = "list"
    /\ \E ok \in BOOLEAN :
         /\ Budget(Cost(ok))
         /\ IF ok
            THEN /\ run' = [ run EXCEPT !.queue = slackChannels ]
                 /\ pc' = "channel"
                 /\ hist' = hist
            ELSE /\ run' = run
                 /\ pc' = "idle"
                 /\ hist' = [ hist EXCEPT !.exit = "1", !.aborted = TRUE ]
    /\ UNCHANGED << now, platform, slackChannels, slackUsers, store, users, sync_log, usersCache,
                    chan, win, thr >>

\* Variant of the catch of conversations.join: only channel_not_found returns
returnsEarlyNotFoundOnly(join) == join = "channel_not_found"

\* catch (err) of conversations.join: channel_not_found and any other error not
\* named return { newMessages: 0, newReplies: 0 }
returnsEarly(join) == join \in { "channel_not_found", "other" }

\* syncChannel(): join, then the first window of the mode
SyncChannel ==
    /\ pc = "channel"
    /\ run.queue # << >>
    /\ LET channelId == Head(run.queue) IN
       \E join \in JoinResults :
         IF returnsEarly(join)
         THEN /\ Goto(ChannelDone(NoChan, run))
              /\ hist' = [ hist EXCEPT !.windows = << >>, !.channel = channelId,
                                       !.join = join,
                                       !.skipped = @ \cup { channelId } ]
              /\ failures' = failures
         ELSE \E readOk \in BOOLEAN :
              /\ Budget(IF run.isFullSync THEN Cost(readOk) ELSE 0)
              /\ (~run.isFullSync => readOk)
              /\ LET oldest == IF run.isFullSync
                               THEN fullSyncStart(getOldestTimestamp(channelId, readOk))
                               ELSE recheckFrom(RECHECK_DAYS)
                     kind == IF run.isFullSync THEN "new" ELSE "recheck"
                 IN /\ win' = StartWindow(kind, oldest)
                    /\ hist' = [ hist EXCEPT
                                   !.channel = channelId,
                                   !.join = join,
                                   !.windows = << Requested(kind, oldest, channelId,
                                                            readOk) >> ]
              /\ chan' = [ NoChan EXCEPT !.id = channelId ]
              /\ pc' = "history"
              /\ UNCHANGED << run, thr >>
    /\ UNCHANGED << now, platform, slackChannels, slackUsers, store, users, sync_log, usersCache >>

\* const lastSync = await getLastSyncTime(channelId); syncNewMessages(.., lastSync)
GetLastSyncTime ==
    /\ pc = "lastsync"
    /\ \E readOk \in BOOLEAN :
         /\ Budget(Cost(readOk))
         /\ LET lastSync == getLastSyncTime(chan.id, readOk)
            IN /\ win' = StartWindow("new", lastSync)
               /\ hist' = [ hist EXCEPT !.windows =
                              Append(@, Requested("new", lastSync, chan.id, readOk)) ]
    /\ pc' = "history"
    /\ UNCHANGED << now, platform, slackChannels, slackUsers, store, users, sync_log, usersCache,
                    run, chan, thr >>

\* Variant of the history request: next_cursor of the response is dropped, the
\* next request carries the cursor of this one
HistoryRequestKeepingCursor ==
    /\ pc = "history"
    /\ LET rest == HistoryRest(chan.id, win.oldest, win.cursor) IN
       \/ /\ Budget(1)
          /\ Goto(WindowDone(win, chan, run))
       \/ /\ rest = << >>
          /\ Goto(WindowDone([ win EXCEPT !.hasMore = FALSE ], chan, run))
          /\ failures' = failures
       \/ \E k \in 1..Len(rest) :
            /\ Goto([ pc |-> "page", thr |-> thr, chan |-> chan, run |-> run,
                      win |-> [ win EXCEPT !.page = ApiPage(rest, k),
                                           !.hasMore = (k < Len(rest)) ] ])
            /\ failures' = failures
    /\ hist' = [ hist EXCEPT !.join = "none" ]
    /\ UNCHANGED << now, platform, slackChannels, slackUsers, store, users, sync_log, usersCache >>

\* One slack.conversations.history request of the window's loop
HistoryRequest ==
    /\ pc = "history"
    /\ LET rest == HistoryRest(chan.id, win.oldest, win.cursor) IN
       \/ \* the request throws: catch, break
          /\ Budget(1)
          /\ Goto(WindowDone(win, chan, run))
       \/ \* nothing (more) to return
          /\ rest = << >>
          /\ Goto(WindowDone([ win EXCEPT !.hasMore = FALSE ], chan, run))
          /\ failures' = failures
       \/ \* a page of k messages
          \E k \in 1..Len(rest) :
            /\ Goto([ pc |-> "page", thr |-> thr, chan |-> chan, run |-> run,
                      win |-> [ win EXCEPT !.page = ApiPage(rest, k),
                                           !.hasMore = (k < Len(rest)),
                                           !.cursor = rest[k].ts ] ])
            /\ failures' = failures
    /\ hist' = [ hist EXCEPT !.join = "none" ]
    /\ UNCHANGED << now, platform, slackChannels, slackUsers, store, users, sync_log, usersCache >>

\* if (message.reply_count && message.reply_count > 0)
hasReplies(message) == message.reply_count > 0

\* if (message.ts === threadTs) continue;
isParent(message, threadTs) == message.ts = threadTs

\* if (message.user)
hasAuthor(message) == message.user # NoUser

\* The side effects of one storeMessage call
Store(message, channelId, o) ==
    LET r == storeMessage(message, channelId, channelId, o) IN
    /\ Relevant(message, o)
    /\ Budget(r.nfail)
    /\ store' = r.store
    /\ users' = r.users
    /\ usersCache' = r.cache
    /\ hist' = [ hist EXCEPT
                   !.last = LastCall(message, channelId, o),
                   !.calls = @ + 1,
                   !.persisted = IF o.upsertOk /\ pc \in { "page", "tpage" }
                                 THEN @ \cup { r.row.id } ELSE @,
                   !.tried = [ messages |-> @.messages
                                 + (IF pc = "page" /\ win.kind = "new" THEN 1 ELSE 0),
                               replies |-> @.replies
                                 + (IF pc = "tpage" THEN 1 ELSE 0) ],
                   !.fetches = IF r.fetched
                               THEN [ @ EXCEPT ![message.user] = @ + 1 ] ELSE @,
                   !.reads = IF r.read
                             THEN [ @ EXCEPT ![message.user] = @ + 1 ] ELSE @ ]

\* for (const message of result.messages): one message of a history page
HistoryMessage ==
    /\ pc = "page"
    /\ win.page # << >>
    /\ LET message == Head(win.page)
           w == [ win EXCEPT !.page = Tail(@) ]
       IN IF ~hasAuthor(message)
          THEN /\ Goto(AfterMessage(w, chan, run))
               /\ UNCHANGED << store, users, usersCache, hist, failures >>
          ELSE /\ \E o \in Outcomes : Store(message, chan.id, o)
               /\ LET w1 == [ w EXCEPT !.messages = @ + 1 ]
                  IN IF hasReplies(message)
                     THEN Goto([ pc |-> "replies", win |-> w1,
                                 thr |-> StartThread(message.ts),
                                 chan |-> chan, run |-> run ])
                     ELSE Goto(AfterMessage(w1, chan, run))
    /\ UNCHANGED << now, platform, slackChannels, slackUsers, sync_log >>

\* One slack.conversations.replies request of syncThreadReplies
RepliesRequest ==
    /\ pc = "replies"
    /\ LET rest == RepliesRest(chan.id, thr.ts, thr.cursor)
           head == IF thr.cursor = Null
                   THEN Ascending(ThreadParent(chan.id, thr.ts)) ELSE << >>
       IN
       \/ \* the request throws: catch, break
          /\ Budget(1)
          /\ Goto(ThreadDone(thr, win, chan, run))
       \/ \* the last page without replies
          /\ rest = << >>
          /\ Goto(AfterReply([ thr EXCEPT !.page = ApiPage(head, Len(head)),
                                          !.hasMore = FALSE ], win, chan, run))
          /\ failures' = failures
       \/ \* a page of k replies (the first page starts with the parent)
          \E k \in 1..Len(rest) :
            /\ Goto([ pc |-> "tpage", win |-> win, chan |-> chan, run |-> run,
                      thr |-> [ thr EXCEPT !.page = ApiPage(head \o rest, Len(head) + k),
                                           !.hasMore = (k < Len(rest)),
                                           !.cursor = rest[k].ts ] ])
            /\ failures' = failures
    /\ UNCHANGED << now, platform, slackChannels, slackUsers, store, users, sync_log, usersCache, hist >>

\* for (const message of result.messages): one message of a replies page
ReplyMessage ==
    /\ pc = "tpage"
    /\ thr.page # << >>
    /\ LET message == Head(thr.page)
           t == [ thr EXCEPT !.page = Tail(@) ]
       IN IF isParent(message, thr.ts) \/ ~hasAuthor(message)
          THEN /\ Goto(AfterReply(t, win, chan, run))
               /\ UNCHANGED << store, users, usersCache, hist, failures >>
          ELSE /\ \E o \in Outcomes : Store(message, chan.id, o)
               /\ Goto(AfterReply([ t EXCEPT !.count = @ + 1 ], win, chan, run))
    /\ UNCHANGED << now, platform, slackChannels, slackUsers, sync_log >>

\* Variant of the completion step: a failed upsert is thrown to main's catch
RecordSyncCompletionFatal ==
    /\ pc = "channel"
    /\ run.queue = << >>
    /\ \E ok \in BOOLEAN :
         /\ Budget(Cost(ok))
         /\ sync_log' = IF ok
                        THEN UpsertLog(sync_log,
                                       SyncLogRow(run.totalMessages, run.totalReplies,
                                                  run.channelsProcessed))
                        ELSE sync_log
         /\ hist' = [ hist EXCEPT !.exit = IF ok THEN "0" ELSE "1", !.join = "none",
                                  !.aborted = @ \/ ~ok,
                                  !.recorded = @ \/ ok,
                                  !.replaced = @ \/ (ok /\ \E row \in sync_log :
                                                       /\ row.sync_date = DateOf(now)
                                                       /\ row \notin sync_log'),
                                  !.anchor = IF ok THEN hist.runStart ELSE @,
                                  !.completedDays = IF ok THEN @ \cup { DateOf(now) }
                                                    ELSE @,
                                  !.recordedDays = IF ok THEN @ \cup { DateOf(now) }
                                                   ELSE @ ]
    /\ pc' = "idle"
    /\ UNCHANGED << now, platform, slackChannels, slackUsers, store, users, usersCache, run, chan,
                    win, thr >>

\* await recordSyncCompletion(...): an upsert error is only logged; exit status 0
RecordSyncCompletion ==
    /\ pc = "channel"
    /\ run.queue = << >>
    /\ \E ok \in BOOLEAN :
         /\ Budget(Cost(ok))
         /\ sync_log' = IF ok
                        THEN UpsertLog(sync_log,
                                       SyncLogRow(run.totalMessages, run.totalReplies,
                                                  run.channelsProcessed))
                        ELSE sync_log
         /\ hist' = [ hist EXCEPT !.exit = "0", !.join = "none",
                                  !.recorded = @ \/ ok,
                                  !.replaced = @ \/ (ok /\ \E row \in sync_log :
                                                       /\ row.sync_date = DateOf(now)
                                                       /\ row \notin sync_log'),
                                  !.anchor = IF ok THEN hist.runStart ELSE @,
                                  !.completedDays = @ \cup { DateOf(now) },
                                  !.recordedDays = IF ok THEN @ \cup { DateOf(now) }
                                                   ELSE @ ]
    /\ pc' = "idle"
    /\ UNCHANGED << now, platform, slackChannels, slackUsers, store, users, usersCache, run, chan,
                    win, thr >>

\* Time passes while the process waits (or between two runs)
Tick ==
    /\ now < MaxTime
    /\ pc \in { "idle", "channel", "history", "replies", "lastsync" }
    /\ now' = now + 1
    /\ UNCHANGED << platform, slackChannels, slackUsers, failures, store, users, sync_log, usersCache,
                    pc, run, chan, win, thr, hist >>

----------------------------------------------------------------------------
(* Initial states and specifications *)

Msg(channelId, sec, frac, user, parent) ==
    [ channel |-> channelId, ts |-> sec * TsUnit + frac, user |-> user,
      text |-> "v1", edited |-> Null, thread_ts |-> parent ]

\* The histories Slack may hold: a top-level message P (authored or not), a
\* later authored top-level message Q, and a reply R to P that is posted after
\* the first run can start.
Platforms ==
    { { Msg("C1", 2, 1, up, Null),
        Msg("C1", 3, 1, "U1", Null),
        Msg("C1", 5, 1, "U1", 2 * TsUnit + 1) }
      : up \in { "U1", NoUser } }

\* hist: what the properties need to remember of the runs so far
\*   runs, runStart       number of runs started; start time of the current / last run
\*   anchor, recorded     start time of the last run that recorded its completion
\*   aborted              some run ended in main's catch
\*   exit                 exit status of the last run that ended
\*   startDays, completedDays, recordedDays   days on which a run started / reached
\*                        recordSyncCompletion / wrote its sync_log row
\*   firstOfDay, completedToday   evaluated when the current run started
\*   channel, windows, skipped    of the current run: the channel being synced, the
\*                        windows requested for it, the channels that could not be joined
\*   fetches, reads, calls, last  of the current process: users.info requests and
\*                        users reads per user id, storeMessage calls, the last call
\*   join                 the outcome of conversations.join, until the next request
\*   persisted, tried     of the current run: the ids upserted with success; the
\*                        storeMessage calls for history messages of a syncNewMessages
\*                        window and for thread replies
\*   replaced             some completion write replaced the row of its day by
\*                        another one
NoHist ==
    [ runStart |-> Null, runs |-> 0, anchor |-> Null, recorded |-> FALSE,
      aborted |-> FALSE, exit |-> "none", startDays |-> {}, completedDays |-> {},
      recordedDays |-> {}, firstOfDay |-> FALSE, completedToday |-> FALSE,
      channel |-> "", windows |-> << >>, skipped |-> {}, fetches |-> ZeroCounts,
      reads |-> ZeroCounts, calls |-> 0, last |-> NoCall, failedAtStart |-> 0,
      join |-> "none", persisted |-> {}, tried |-> [ messages |-> 0, replies |-> 0 ],
      replaced |-> FALSE ]

Init ==
    /\ now = FULL_SYNC_DAYS * DaySeconds
    /\ platform \in Platforms
    /\ slackChannels = << "C1" >>
    /\ slackUsers = [ u \in UserIds |-> 1 ]
    /\ failures = 0
    /\ store = {}
    /\ users = [ u \in UserIds |-> NoRow ]
    /\ sync_log = {}
    /\ usersCache = [ u \in UserIds |-> NotCached ]
    /\ pc = "idle"
    /\ run = NoRun
    /\ chan = NoChan
    /\ win = NoWin
    /\ thr = NoThr
    /\ hist = NoHist

Next ==
    \/ MainStart
    \/ ListChannels
    \/ SyncChannel
    \/ GetLastSyncTime
    \/ HistoryRequest
    \/ HistoryMessage
    \/ RepliesRequest
    \/ ReplyMessage
    \/ RecordSyncCompletion
    \/ Tick

Spec == Init /\ [][Next]_vars

\* The same process when conversations.list returns two channels: C1 holds a
\* thread (parent P, reply R) and C2 two messages.  Time passes between two runs
\* only.
PlatformTwo ==
    { Msg("C1", 3, 1, "U1", Null),
      Msg("C1", 5, 1, "U1", 3 * TsUnit + 1),
      Msg("C2", 2, 1, "U1", Null),
      Msg("C2", 3, 1, "U1", Null) }

InitTwo ==
    /\ now = FULL_SYNC_DAYS * DaySeconds + 1
    /\ platform = PlatformTwo
    /\ slackChannels = << "C1", "C2" >>
    /\ slackUsers = [ u \in UserIds |-> 1 ]
    /\ failures = 0
    /\ store = {}
    /\ users = [ u \in UserIds |-> NoRow ]
    /\ sync_log = {}
    /\ usersCache = [ u \in UserIds |-> NotCached ]
    /\ pc = "idle"
    /\ run = NoRun
    /\ chan = NoChan
    /\ win = NoWin
    /\ thr = NoThr
    /\ hist = NoHist

\* Time passes between two runs
TickIdle == pc = "idle" /\ Tick

NextTwo ==
    \/ MainStart
    \/ ListChannels
    \/ SyncChannel
    \/ GetLastSyncTime
    \/ HistoryRequest
    \/ HistoryMessage
    \/ RepliesRequest
    \/ ReplyMessage
    \/ RecordSyncCompletion
    \/ TickIdle

SpecTwo == InitTwo /\ [][NextTwo]_vars

\* The same process over a channel that went quiet: its last top-level message P
\* is older than RECHECK_DAYS days when a reply R to it is posted, after the
\* first run can start.
PlatformQuiet ==
    { Msg("C1", 2, 1, "U1", Null),
      Msg("C1", 5, 0, "U1", 2 * TsUnit + 1) }

InitQuiet ==
    /\ now = FULL_SYNC_DAYS * DaySeconds
    /\ platform = PlatformQuiet
    /\ slackChannels = << "C1" >>
    /\ slackUsers = [ u \in UserIds |-> 1 ]
    /\ failures = 0
    /\ store = {}
    /\ users = [ u \in UserIds |-> NoRow ]
    /\ sync_log = {}
    /\ usersCache = [ u \in UserIds |-> NotCached ]
    /\ pc = "idle"
    /\ run = NoRun
    /\ chan = NoChan
    /\ win = NoWin
    /\ thr = NoThr
    /\ hist = NoHist

SpecQuiet == InitQuiet /\ [][Next]_vars

\* The same process over one channel whose history and whose one thread both
\* take more than one page: two top-level messages, the newer one with two
\* replies, all posted before the first run.  Time stands still.
PlatformPages ==
    { Msg("C1", 2, 1, "U1", Null),
      Msg("C1", 3, 1, "U1", Null),
      Msg("C1", 4, 0, "U1", 3 * TsUnit + 1),
      Msg("C1", 4, 1, "U1", 3 * TsUnit + 1) }

InitPages ==
    /\ now = FULL_SYNC_DAYS * DaySeconds + 1
    /\ platform = PlatformPages
    /\ slackChannels = << "C1" >>
    /\ slackUsers = [ u \in UserIds |-> 1 ]
    /\ failures = 0
    /\ store = {}
    /\ users = [ u \in UserIds |-> NoRow ]
    /\ sync_log = {}
    /\ usersCache = [ u \in UserIds |-> NotCached ]
    /\ pc = "idle"
    /\ run = NoRun
    /\ chan = NoChan
    /\ win = NoWin
    /\ thr = NoThr
    /\ hist = NoHist

NextPages ==
    \/ MainStart
    \/ ListChannels
    \/ SyncChannel
    \/ GetLastSyncTime
    \/ HistoryRequest
    \/ HistoryMessage
    \/ RepliesRequest
    \/ ReplyMessage
    \/ RecordSyncCompletion

SpecPages == InitPages /\ [][NextPages]_vars

----------------------------------------------------------------------------
(* storeMessage on its own: any sequence of calls a process may make, with  *)
(* messages whose text and edited marker change between calls, over several *)
(* processes, while Slack profiles are updated                              *)

\* message.edited?.ts of an edited message (later than the ts of any message)
EditedTs == 9

\* The messages storeMessage is called with (its callers pass authored messages
\* only): one message in every state of text and edited marker, and another one
CallMessages ==
    [ ts : { 3 }, user : { "U1" }, text : { "v1", "v2" },
      edited : { Null, EditedTs }, thread_ts : { Null }, reply_count : { 0 } ]
    \cup
    [ ts : { 5 }, user : { "U1" }, text : { "v1" },
      edited : { Null }, thread_ts : { Null }, reply_count : { 0 } ]

InitStore ==
    /\ now = FULL_SYNC_DAYS * DaySeconds
    /\ platform = {}
    /\ slackChannels = << "C1" >>
    /\ slackUsers = [ u \in UserIds |-> 1 ]
    /\ failures = 0
    /\ store = {}
    /\ users = [ u \in UserIds |-> NoRow ]
    /\ sync_log = {}
    /\ usersCache = [ u \in UserIds |-> NotCached ]
    /\ pc = "store"
    /\ run = NoRun
    /\ chan = NoChan
    /\ win = NoWin
    /\ thr = NoThr
    /\ hist = [ NoHist EXCEPT !.runs = 1 ]

\* await storeMessage(message, channelId, channelName)
StoreMessageCall ==
    /\ pc = "store"
    /\ hist.calls < MaxCalls
    /\ \E message \in CallMessages, o \in Outcomes : Store(message, "C1", o)
    /\ UNCHANGED << now, platform, slackChannels, slackUsers, sync_log, pc, run, chan, win, thr >>

\* The process ends and the next one starts: usersCache is a new Map()
NewProcess ==
    /\ pc = "store"
    /\ hist.runs < MaxProcesses
    /\ usersCache' = [ u \in UserIds |-> NotCached ]
    /\ hist' = [ hist EXCEPT !.runs = @ + 1, !.fetches = ZeroCounts,
                             !.reads = ZeroCounts, !.calls = 0, !.last = NoCall ]
    /\ UNCHANGED << now, platform, slackChannels, slackUsers, failures, store, users, sync_log,
                    pc, run, chan, win, thr >>

\* A user changes their profile on Slack: `updated` grows
ProfileUpdated ==
    /\ pc \in { "store", "concurrent" }
    /\ \E u \in { "U1" } :
         /\ slackUsers[u] < MaxUpdated
         /\ slackUsers' = [ slackUsers EXCEPT ![u] = @ + 1 ]
    /\ UNCHANGED << now, platform, slackChannels, failures, store, users, sync_log, usersCache,
                    pc, run, chan, win, thr, hist >>

NextStore ==
    \/ StoreMessageCall
    \/ NewProcess
    \/ ProfileUpdated

SpecStore == InitStore /\ [][NextStore]_vars

----------------------------------------------------------------------------
(* Concurrent runs: several processes, each with its own usersCache, handle *)
(* their first message of user U1 while the profile changes on Slack.  The   *)
(* requests of getUser and syncUser are separate steps: users.info, the      *)
(* select of the users row, the upsert.  run[p] is the state of process p.   *)

Procs == 1..MaxProcesses

\* A process before getUser: nothing fetched, nothing read
NoSync == [ at |-> "getUser", slackUser |-> NoProfile, dbUser |-> NoRow,
            readOk |-> TRUE, readAfter |-> 0 ]

\* hist of the concurrent runs: the number of upserts done on the users row of
\* U1 and the greatest `updated` written to it
NoWrites == [ writes |-> 0, maxWritten |-> Null ]

InitConcurrent ==
    /\ now = FULL_SYNC_DAYS * DaySeconds
    /\ platform = {}
    /\ slackChannels = << "C1" >>
    /\ slackUsers = [ u \in UserIds |-> 1 ]
    /\ failures = 0
    /\ store = {}
    /\ users = [ u \in UserIds |-> NoRow ]
    /\ sync_log = {}
    /\ usersCache = [ u \in UserIds |-> NotCached ]
    /\ pc = "concurrent"
    /\ run = [ p \in Procs |-> NoSync ]
    /\ chan = NoChan
    /\ win = NoWin
    /\ thr = NoThr
    /\ hist = NoWrites

\* getUser("U1") with an empty cache: await slack.users.info; on an error
\* getUser returns null and storeMessage does not call syncUser
UsersInfo(p) ==
    /\ pc = "concurrent"
    /\ run[p].at = "getUser"
    /\ \E fetchOk \in BOOLEAN :
         /\ Budget(Cost(fetchOk))
         /\ run' = [ run EXCEPT ![p] =
                       IF fetchOk
                       THEN [ @ EXCEPT !.at = "select", !.slackUser = Profile("U1") ]
                       ELSE [ @ EXCEPT !.at = "done" ] ]
    /\ UNCHANGED << now, platform, slackChannels, slackUsers, store, users, sync_log,
                    usersCache, pc, chan, win, thr, hist >>

\* syncUser: await supabase.from('users').select('updated').eq('id', ..).single()
SelectUpdated(p) ==
    /\ pc = "concurrent"
    /\ run[p].at = "select"
    /\ \E readOk \in BOOLEAN :
         /\ Budget(Cost(readOk))
         /\ run' = [ run EXCEPT ![p] =
                       [ @ EXCEPT !.at = "upsert",
                                  !.dbUser = users[run[p].slackUser.id],
                                  !.readOk = readOk,
                                  !.readAfter = hist.writes ] ]
    /\ UNCHANGED << now, platform, slackChannels, slackUsers, store, users, sync_log,
                    usersCache, pc, chan, win, thr, hist >>

\* syncUser: if (needsUpdate) await supabase.from('users').upsert(...)
UpsertUser(p) ==
    /\ pc = "concurrent"
    /\ run[p].at = "upsert"
    /\ LET slackUser == run[p].slackUser IN
       IF needsUpdate(slackUser, run[p].dbUser, run[p].readOk)
       THEN \E upsertOk \in BOOLEAN :
              /\ Budget(Cost(upsertOk))
              /\ users' = IF upsertOk
                          THEN [ users EXCEPT ![slackUser.id] =
                                   [ exists |-> TRUE, updated |-> slackUser.updated ] ]
                          ELSE users
              /\ hist' = IF upsertOk
                         THEN [ writes |-> hist.writes + 1,
                                maxWritten |-> Max(hist.maxWritten, slackUser.updated) ]
                         ELSE hist
       ELSE UNCHANGED << users, hist, failures >>
    /\ run' = [ run EXCEPT ![p].at = "done" ]
    /\ UNCHANGED << now, platform, slackChannels, slackUsers, store, sync_log,
                    usersCache, pc, chan, win, thr >>

NextConcurrent ==
    \/ \E p \in Procs : UsersInfo(p)
    \/ \E p \in Procs : SelectUpdated(p)
    \/ \E p \in Procs : UpsertUser(p)
    \/ ProfileUpdated

SpecConcurrent == InitConcurrent /\ [][NextConcurrent]_vars

----------------------------------------------------------------------------
(* Properties *)

Running == pc \notin { "idle" }
Syncing == pc \notin { "idle", "list" }
\* The last run has ended normally and none of its requests or writes failed
CompletedClean == pc = "idle" /\ hist.exit = "0" /\ failures = hist.failedAtStart
HorizonSeconds == FULL_SYNC_DAYS * DaySeconds
RecheckSeconds == RECHECK_DAYS * DaySeconds
Stored(m) == \E r \in store : r.id = MessageId(m.channel, m.ts)
\* m was on the platform when the last run started
PostedBeforeRun(m) == SecondsOf(m.ts) <= hist.runStart
LatestStored(w) == CHOOSE t \in w.stored : \A x \in w.stored : x <= t

\* C1: when no earlier run has recorded a completion, the windows requested for a
\* channel are exactly one open-ended window starting FULL_SYNC_DAYS before the
\* time it was planned, whatever the store holds, and no recheck window.
C1_SingleHorizonWindow ==
    (Syncing /\ ~hist.recorded /\ hist.windows # << >>)
        => /\ Len(hist.windows) = 1
           /\ hist.windows[1].kind = "new"
           /\ hist.windows[1].latest = Null
           /\ hist.windows[1].oldest = hist.windows[1].at - HorizonSeconds

C3_IncrementalOnlyAfterCompletion ==
    /\ { row.sync_date : row \in sync_log } = hist.recordedDays
    /\ (Running /\ ~run.isFullSync)
          => (hist.recorded /\ DateOf(hist.runStart) \in hist.recordedDays)

\* An incremental run is under way after some earlier run aborted
C3_Witness == Syncing /\ ~run.isFullSync /\ hist.aborted

\* C4: with no failed request, the first run started on a calendar day is FULL and
\* a run is INCREMENTAL exactly when a run completed earlier on the same day.
C4_ModeByCalendarDay ==
    (Running /\ failures = 0)
        => /\ (hist.firstOfDay => run.isFullSync)
           /\ (~run.isFullSync <=> hist.completedToday)

InHorizon(m) == m.ts > (now - HorizonSeconds) * TsUnit
Accessible(m) == m.channel \notin hist.skipped

\* The parent of reply r is on the platform and has an author
AuthoredParent(r) ==
    \E parent \in platform :
        parent.channel = r.channel /\ parent.ts = r.thread_ts /\ parent.user # NoUser

\* C5: after a FULL run without any failure, every authored message posted before
\* the run in a channel it could join, with a ts in the last FULL_SYNC_DAYS days
\* (for a reply: under an authored parent that is in those days too), is stored.
C5_FullSyncStoresHorizon ==
    (CompletedClean /\ run.isFullSync)
        => \A m \in platform :
              ( /\ m.user # NoUser
                /\ Accessible(m)
                /\ PostedBeforeRun(m)
                /\ InHorizon(m)
                /\ (m.thread_ts # Null =>
                      AuthoredParent(m) /\ m.thread_ts > (now - HorizonSeconds) * TsUnit) )
              => Stored(m)

\* C6: after an INCREMENTAL run without any failure, every authored reply posted
\* before the run and within the last RECHECK_DAYS days, to an authored parent
\* older than RECHECK_DAYS days, is stored.
C6_RecentReplyToOldParent ==
    (CompletedClean /\ ~run.isFullSync)
        => \A r \in platform :
              ( /\ r.user # NoUser
                /\ Accessible(r)
                /\ r.thread_ts # Null
                /\ AuthoredParent(r)
                /\ PostedBeforeRun(r)
                /\ r.ts > (now - RecheckSeconds) * TsUnit
                /\ r.thread_ts < (hist.runStart - RecheckSeconds) * TsUnit )
              => Stored(r)

RowsOf(id) == { r \in store : r.id = id }

\* C7 (as claimed): after a message is stored under a key that already has a row
\* with another text, the key has exactly one row, with the second call's text
\* and a non-null edited_timestamp.
C7_SecondStoreMarksEdited ==
    (hist.last.called /\ hist.last.upsertOk /\ hist.last.hadRow
       /\ hist.last.text \notin hist.last.oldTexts)
        => /\ Cardinality(RowsOf(hist.last.id)) = 1
           /\ \A r \in RowsOf(hist.last.id) :
                 r.text = hist.last.text /\ r.edited_timestamp # Null

\* C7 (amended): no key ever has two rows, and after a successful store the one
\* row of the key carries the call's text and the call's edited marker, which is
\* null when the message carries none, also when the text differs from the row
\* it replaces.
C7_UpsertKeepsLastCall ==
    /\ \A r \in store : Cardinality(RowsOf(r.id)) = 1
    /\ (hist.last.called /\ hist.last.upsertOk)
          => /\ Cardinality(RowsOf(hist.last.id)) = 1
             /\ \A r \in RowsOf(hist.last.id) :
                   /\ r.text = hist.last.text
                   /\ r.edited_timestamp = hist.last.edited

\* A second store under the same key, with another text and no edited marker
C7_Witness ==
    /\ hist.last.called /\ hist.last.upsertOk /\ hist.last.hadRow
    /\ hist.last.text \notin hist.last.oldTexts
    /\ hist.last.edited = Null

\* C8: syncUser never issues the users upsert for a stored user whose `updated`
\* is greater than or equal to the incoming profile's, whatever the read of the
\* stored row returned (found, absent, error).
C8_NoOverwriteOfNewerUser ==
    ~( /\ hist.last.called
       /\ hist.last.userWrite
       /\ hist.last.dbBefore.exists
       /\ hist.last.dbBefore.updated >= hist.last.incoming )

\* C9: within one run no user id is fetched from users.info more than once, a
\* failed fetch included.
C9_OneFetchPerUser == \A u \in UserIds : hist.fetches[u] <= 1


\* Replies counted so far in the run, wherever the count currently lives
RepliesCounted == run.totalReplies + chan.totalNewReplies + win.replies + thr.count

\* C10: a history message starts one thread expansion, for its own ts, exactly
\* when its reply_count is above zero (none when it is zero or absent); an
\* expansion starts nowhere else and keeps its ts; and within it the message
\* carrying the parent's ts is neither stored nor counted as a reply.
C10_EveryThreadExpanded ==
    [][ /\ (pc = "page" /\ win.page # << >>)
          => LET m == Head(win.page)
             IN  (m.reply_count > 0)
                    <=> (pc' = "replies" /\ thr' = StartThread(m.ts))
        /\ (pc # "page" /\ pc' = "replies") => pc \in { "replies", "tpage" }
        /\ (pc \in { "replies", "tpage" } /\ pc' \in { "replies", "tpage" })
              => thr'.ts = thr.ts
        /\ (pc = "tpage" /\ thr.page # << >> /\ Head(thr.page).ts = thr.ts)
              => /\ store' = store
                 /\ hist'.calls = hist.calls
                 /\ RepliesCounted' = RepliesCounted ]_vars

\* Messages counted so far in the run towards total_messages, wherever the count
\* currently lives (updatedMessages of a recheck window is only logged)
MessagesCounted ==
    run.totalMessages + chan.totalNewMessages
        + (IF win.kind = "new" THEN win.messages ELSE 0)

\* The top-level messages / the replies upserted with success in the current run
PersistedMessages ==
    { m \in platform : m.thread_ts = Null /\ MessageId(m.channel, m.ts) \in hist.persisted }
PersistedReplies ==
    { m \in platform : m.thread_ts # Null /\ MessageId(m.channel, m.ts) \in hist.persisted }

\* A row written by the step: recordSyncCompletion has inserted or replaced it
Written(row) == row \in sync_log' /\ row \notin sync_log

\* C11 (as claimed): the totals a run writes to sync_log are the numbers of
\* messages and of replies it persisted, over all channels and over the recheck
\* and the new windows alike (stated for runs in which no request or write
\* has failed).
C11_TotalsArePersisted ==
    [][ \A row \in sync_log' :
          (Written(row) /\ failures' = 0)
              => /\ row.total_messages = Cardinality(PersistedMessages)
                 /\ row.total_replies = Cardinality(PersistedReplies) ]_vars

\* C11 (amended): total_messages is the number of storeMessage calls made for
\* history messages of the syncNewMessages windows (the window of a FULL run, the
\* second window of an INCREMENTAL run), total_replies the number of calls made
\* for thread replies in both kinds of window, over all channels, whether or not
\* the call's upsert succeeded; the row written carries these two numbers.
C11_TotalsAreNewWindowCalls ==
    [][ /\ hist'.tried.messages = MessagesCounted'
        /\ hist'.tried.replies = RepliesCounted'
        /\ \A row \in sync_log' :
              Written(row) => /\ row.total_messages = hist.tried.messages
                              /\ row.total_replies = hist.tried.replies ]_vars

\* An INCREMENTAL run over two channels has written its row, and it persisted
\* more messages than the totals of the row say
C11_Witness ==
    /\ pc = "idle" /\ hist.exit = "0" /\ ~run.isFullSync
    /\ run.channelsProcessed = 2
    /\ \E row \in sync_log :
          /\ row.sync_date = DateOf(now) /\ row.completed_at = now
          /\ row.total_messages = run.totalMessages
          /\ row.total_messages < Cardinality(PersistedMessages)

\* C12: when conversations.list fails the run ends there with exit status 1: no
\* channel has been joined or fetched, nothing is stored, and no sync_log row is
\* written by the run.
C12_ListFailureAborts ==
    [][ /\ (pc = "list" /\ failures' > failures)
          => /\ pc' = "idle"
             /\ hist'.exit = "1"
             /\ sync_log' = sync_log /\ store' = store /\ users' = users
             /\ hist.join = "none" /\ hist.windows = << >> /\ hist.skipped = {}
             /\ hist.calls = 0
             /\ run.channelsProcessed = 0 /\ run.queue = << >>
        /\ (pc = "idle" /\ hist.exit = "1") => sync_log' = sync_log ]_vars

\* The first run has aborted at the list request and there is no sync_log row
C12_Witness ==
    /\ pc = "idle" /\ hist.exit = "1" /\ hist.runs = 1
    /\ failures = hist.failedAtStart + 1
    /\ sync_log = {} /\ store = {}

\* The step is recordSyncCompletion and its upsert returns an error
CompletionWriteFails == pc = "channel" /\ run.queue = << >> /\ failures' > failures

\* C13 (as claimed): a failed completion write is fatal, the run ends with a
\* non-zero exit status.
C13_CompletionFailureIsFatal ==
    [][ CompletionWriteFails => hist'.exit = "1" ]_vars

\* C13 (amended): a failed completion write is only logged: the run ends as a
\* success with exit status 0, nothing is written to sync_log, and what the run
\* stored stays.
C13_CompletionFailureIsLogged ==
    [][ CompletionWriteFails
          => /\ pc' = "idle"
             /\ hist'.exit = "0"
             /\ hist'.aborted = hist.aborted
             /\ sync_log' = sync_log
             /\ store' = store /\ users' = users ]_vars

\* The first run has stored messages and ended with status 0, and its completion
\* write failed: sync_log has no row
C13_Witness ==
    /\ pc = "idle" /\ hist.exit = "0" /\ hist.runs = 1
    /\ ~hist.recorded /\ sync_log = {}
    /\ failures = hist.failedAtStart + 1
    /\ store # {}

JoinStep == pc = "channel" /\ run.queue # << >> /\ now' = now

\* C15: when the join fails with channel_not_found or with an error not named,
\* syncChannel returns zero counts at once: no window is planned, no request for
\* history or replies is made, nothing is stored, and main goes on with the next
\* channel; after a join that succeeds or fails with already_in_channel or
\* method_not_supported_for_channel_type the first window of the channel is
\* planned.
C15_JoinFailureSkipsChannel ==
    [][ JoinStep
          => /\ hist'.join \in JoinResults
             /\ IF hist'.join \in { "channel_not_found", "other" }
                THEN /\ run'.totalMessages = run.totalMessages
                     /\ run'.totalReplies = run.totalReplies
                     /\ store' = store /\ users' = users /\ usersCache' = usersCache
                     /\ hist'.windows = << >> /\ hist'.calls = hist.calls
                     /\ Head(run.queue) \in hist'.skipped
                     /\ pc' = "channel" /\ run'.queue = Tail(run.queue)
                ELSE /\ pc' = "history"
                     /\ chan'.id = Head(run.queue)
                     /\ Len(hist'.windows) = 1
                     /\ run' = run ]_vars

\* Channel C1 was skipped and the run is handling a history page of C2, with
\* nothing of C1 stored
C15_Witness ==
    /\ pc = "page" /\ chan.id = "C2"
    /\ hist.skipped = { "C1" }
    /\ ChannelRows("C1") = {}

\* C16: a channel that is skipped at the join adds nothing to the totals of the
\* run: messages, replies and channels processed stay as they were.
C16_SkippedChannelAddsNothing ==
    [][ (JoinStep /\ hist'.join \in { "channel_not_found", "other" })
          => /\ run'.totalMessages = run.totalMessages
             /\ run'.totalReplies = run.totalReplies
             /\ run'.channelsProcessed = run.channelsProcessed ]_vars

\* The step is a history or replies request that throws
RequestFails == pc \in { "history", "replies" } /\ failures' > failures

\* C17: a history or replies request that fails ends its own loop only.  What
\* was stored and counted before stays; a failed replies request returns to the
\* history loop of the same window; a failed request of the recheck window is
\* followed by the new window of the same channel; a failed request of a new
\* window ends the channel and main takes the next one; and the run never ends
\* with exit status 1 after the list request has succeeded.
C17_FailedRequestEndsItsLoop ==
    [][ /\ RequestFails
          => /\ store' = store /\ users' = users
             /\ MessagesCounted' = MessagesCounted
             /\ RepliesCounted' = RepliesCounted
             /\ (pc = "replies"
                   => /\ thr' = NoThr
                      /\ \/ pc' \in { "page", "history" }
                               /\ win'.kind = win.kind /\ win'.oldest = win.oldest
                               /\ win'.cursor = win.cursor /\ win'.page = win.page
                         \/ win.page = << >> /\ ~win.hasMore /\ win' = NoWin)
             /\ (pc = "history" => win' = NoWin /\ thr' = NoThr)
             /\ ((win' = NoWin /\ win.kind = "recheck")
                   => pc' = "lastsync" /\ chan'.id = chan.id /\ run' = run)
             /\ ((win' = NoWin /\ win.kind = "new")
                   => /\ pc' = "channel"
                      /\ run'.queue = Tail(run.queue)
                      /\ run'.channelsProcessed = run.channelsProcessed + 1)
        /\ (pc = "lastsync" /\ pc' # pc)
              => pc' = "history" /\ win'.kind = "new" /\ chan' = chan
        /\ (hist'.exit = "1" /\ hist.exit # "1") => pc = "list" ]_vars

\* A run over two channels has ended with status 0 and written its row although
\* the first history request of C1 failed: only the two messages of C2 were
\* stored
C17_Witness ==
    /\ pc = "idle" /\ hist.exit = "0" /\ hist.runs = 1 /\ sync_log # {}
    /\ run.channelsProcessed = 2 /\ hist.skipped = {}
    /\ failures = 1
    /\ hist.calls = 2
    /\ ChannelRows("C1") = {} /\ Cardinality(ChannelRows("C2")) = 2

\* The step is a storeMessage call of a history or replies loop whose messages
\* upsert returns an error
UpsertFails ==
    /\ pc \in { "page", "tpage" }
    /\ hist'.calls = hist.calls + 1
    /\ ~hist'.last.upsertOk

\* C18: a message whose upsert fails is not stored and is not added to the
\* counts of messages or replies, and the loop goes on with what follows.
C18_FailedUpsertNotCounted ==
    [][ UpsertFails
          => /\ store' = store
             /\ MessagesCounted' = MessagesCounted
             /\ RepliesCounted' = RepliesCounted
             /\ pc' # "idle" ]_vars

\* C19: every message of a history page is handed to storeMessage, and every one
\* with a reply_count above zero starts the expansion of its thread, whether or
\* not it carries a user id.
C19_EveryHistoryMessageStored ==
    [][ (pc = "page" /\ win.page # << >>)
          => LET m == Head(win.page)
             IN  /\ hist'.calls = hist.calls + 1
                 /\ hist'.last.id = MessageId(chan.id, m.ts)
                 /\ (hist'.last.upsertOk
                       => \E r \in store' : r.id = MessageId(chan.id, m.ts))
                 /\ (hasReplies(m)
                       => pc' = "replies" /\ thr' = StartThread(m.ts)) ]_vars

\* C20: the check of the stored `updated` and the upsert are two requests, so
\* concurrent runs can leave a users row with a smaller `updated` than one
\* written before.  The row never carries more than the greatest value written,
\* and whenever its `updated` goes down, the step is the upsert of a process that
\* writes the profile it fetched earlier and whose check did not see the row it
\* replaces: another process wrote after its select, or its select failed.
C20_StaleCheckLowersUpdated ==
    [][ /\ users'["U1"].exists
          => users'["U1"].updated <= hist'.maxWritten
        /\ (users["U1"].exists /\ users'["U1"].updated < users["U1"].updated)
          => \E p \in Procs :
                /\ run[p].at = "upsert" /\ run'[p].at = "done"
                /\ run[p].slackUser.updated = users'["U1"].updated
                /\ (run[p].readAfter < hist.writes \/ ~run[p].readOk) ]_vars

\* With no failed request at all, the users row of U1 carries a smaller
\* `updated` than a value written to it before
C20_Witness ==
    /\ pc = "concurrent"
    /\ failures = 0
    /\ users["U1"].exists
    /\ users["U1"].updated < hist.maxWritten

\* The step is a storeMessage call for a message that carries a user id
StoreCallStep == hist'.calls = hist.calls + 1 /\ hist'.last.user # NoUser

\* C21: within one run the users row of a user id is read at most once: the
\* syncUser call that reads it leaves the cache entry marked dbSynced, whether
\* the upsert was issued or not and whether it succeeded or not, and a call for
\* a user marked dbSynced reads nothing and writes nothing.
C21_OneReadCheckPerUser ==
    [][ /\ \A u \in UserIds : hist'.reads[u] <= 1
        /\ StoreCallStep
              => LET u == hist'.last.user
                 IN  /\ hist'.last.userRead => usersCache'[u].dbSynced
                     /\ usersCache[u].dbSynced
                           => /\ ~hist'.last.userRead
                              /\ hist'.reads = hist.reads
                              /\ users' = users
                              /\ usersCache' = usersCache ]_vars

\* A later storeMessage call of the run for U1 has read and written nothing,
\* after a first syncUser call whose upsert failed: U1 is marked dbSynced and
\* has no users row
C21_Witness ==
    /\ Syncing
    /\ hist.calls >= 2
    /\ hist.last.user = "U1" /\ ~hist.last.userRead
    /\ hist.reads["U1"] = 1
    /\ usersCache["U1"].dbSynced
    /\ ~users["U1"].exists

\* The ts of the last message of a page
LastTs(page) == page[Len(page)].ts

\* C22: in a history loop and in a replies loop the first request carries no
\* cursor and every later one the cursor of the response before it, which only
\* a response changes; a response holds only messages beyond the cursor sent and
\* returns a cursor beyond it, so that no page is requested twice; a request is
\* made again only when the last response reported more pages; and a request
\* that fails ends its loop.
C22_PagesInCursorOrder ==
    [][ /\ (pc = "history" /\ pc' = "page")
              => /\ win'.page # << >>
                 /\ \A i \in 1..Len(win'.page) :
                       win.cursor = Null \/ win'.page[i].ts < win.cursor
                 /\ win'.cursor = LastTs(win'.page)
                 /\ win.cursor # Null => win'.cursor < win.cursor
                 /\ win'.oldest = win.oldest /\ win'.kind = win.kind
        /\ (pc = "history" /\ pc' # "page") => win' = NoWin
        /\ (pc = "history" /\ failures' > failures) => win' = NoWin
        /\ (pc \in { "page", "replies", "tpage" } /\ win' # NoWin)
              => win'.cursor = win.cursor /\ win'.hasMore = win.hasMore
        /\ (pc' = "history" /\ pc \in { "channel", "lastsync" })
              => win'.cursor = Null
        /\ (pc' = "history" /\ pc \in { "page", "replies", "tpage" })
              => win.hasMore /\ win.cursor # Null
        /\ (pc = "replies" /\ pc' = "tpage")
              => /\ thr'.page # << >>
                 /\ \A i \in 1..Len(thr'.page) :
                       thr'.page[i].ts = thr.ts \/ thr'.page[i].ts > thr.cursor
                 /\ (thr'.hasMore => thr'.cursor = LastTs(thr'.page))
                 /\ (thr'.cursor # thr.cursor => thr'.cursor > thr.cursor)
                 /\ (thr'.hasMore => thr'.cursor > thr.cursor)
                 /\ thr'.ts = thr.ts
        /\ (pc = "replies" /\ pc' # "tpage") => thr' = NoThr
        /\ (pc = "replies" /\ failures' > failures) => thr' = NoThr
        /\ (pc = "tpage" /\ thr' # NoThr)
              => thr'.cursor = thr.cursor /\ thr'.hasMore = thr.hasMore
        /\ (pc' = "replies" /\ pc = "page") => thr'.cursor = Null
        /\ (pc' = "replies" /\ pc = "tpage")
              => thr.hasMore /\ thr.cursor # Null ]_vars

\* The replies loop is about to request its second page, with the cursor of the
\* first, inside a history loop that has a second page to request as well
C22_Witness ==
    /\ pc = "replies"
    /\ thr.cursor # Null /\ thr.hasMore /\ thr.page = << >>
    /\ win.cursor # Null /\ win.hasMore /\ win.page = << >>

\* A thread is being expanded in an INCREMENTAL run
ExpandingIncremental ==
    Syncing /\ ~run.isFullSync /\ pc \in { "replies", "tpage" }

\* The ts from which a window planned at `at` is a recheck window
RecheckStartTs(w) == (w.at - RecheckSeconds) * TsUnit

NewPassIncremental ==
    Syncing /\ ~run.isFullSync /\ win.kind = "new" /\ Len(hist.windows) = 2

\* C24: in an INCREMENTAL run the new-messages pass is handed no authored message
\* that the recheck pass of the run has persisted, expands no thread whose parent
\* the recheck pass has persisted, and stores (and counts) no reply that the run
\* has persisted before (stated for runs in which nothing has failed).
C24_PassesDisjoint ==
    (NewPassIncremental /\ failures = 0)
        => /\ (pc = "page" /\ win.page # << >> /\ hasAuthor(Head(win.page)))
                 => MessageId(chan.id, Head(win.page).ts) \notin hist.persisted
           /\ (pc \in { "replies", "tpage" })
                 => MessageId(chan.id, thr.ts) \notin hist.persisted
           /\ (pc = "tpage" /\ thr.page # << >> /\ ~isParent(Head(thr.page), thr.ts))
                 => MessageId(chan.id, Head(thr.page).ts) \notin hist.persisted

====
